---- MODULE Spec2Model ----
(***************************************************************************)
(* Airthings Wave Plus reader (src/wave-plus-reader.py).                   *)
(*                                                                         *)
(* One cooperative asyncio task runs main(): it creates a WavePlusReader,  *)
(* awaits discover() (two scan passes), then connects to every found       *)
(* device in turn and reads it.  Every `await` of a transport call is a    *)
(* suspension point and is one action here; the synchronous code between   *)
(* two awaits runs inside the action that ends the earlier await.          *)
(*                                                                         *)
(* Spec        the program: main() run up to MaxMains times in one         *)
(*             interpreter (class attributes survive between runs).        *)
(* SpecCodec   struct.pack / struct.unpack of the "<4B8H" layout.          *)
(* SpecBattery the battery percentage arithmetic on IEEE-754 doubles.      *)
(* SpecCommand  the decode of notifications of every length.               *)
(* SpecHumidity calc_absolute_humidity on the realistic input ranges.      *)
(* SpecExchange the program with one device and recorded notifications.    *)
(***************************************************************************)
EXTENDS Integers, Sequences, FiniteSets, TLC

VARIABLES
    found_devices,          \* WavePlusReader.found_devices (class attribute, one list)
    command_data,           \* command_data as seen through the instance main() is using
    pc,                     \* where the task is suspended
    mains,                  \* number of main() runs started = instances created
    reader,                 \* the instance main() is using (0: none yet)
    scn,                    \* scan passes completed by the running discover()
    devices,                \* discover's local: the result of its last scan pass
    no_of_found_devices,    \* the last return value of discover(), None before
    dev_idx,                \* position of main's for loop in found_devices
    measurements_data,      \* main's list of results
    json_records,           \* records in wave_plus_data.json, None when not written
    open,                   \* positions whose BleakClient connection is open
    sessions,               \* positions connect() was called for, in call order
    subscribed,             \* start_notify done on COMMAND_UUID and not yet stopped
    bus_ops,                \* events of the current session, in order
    notified,               \* whether a notification was delivered during the current session
    measurements,           \* read_and_format locals
    serial_number,
    formatted_command_data, \* result of the last read_command_data, None before
    formatted_data,         \* connect's result
    exc,                    \* exception propagating out of the current call
    delivered,              \* SpecExchange: the notifications delivered so far, in order
    t_fields,               \* SpecCodec: tuple handed to struct.pack
    t_bytes,                \* SpecCodec: packed bytes
    t_decoded,              \* SpecCodec: result of struct.unpack
    t_mv,                   \* SpecBattery: raw battery field
    t_payload,              \* SpecBattery: notification carrying it
    t_result                \* SpecBattery: decoded command data

vars == <<found_devices, command_data, pc, mains, reader, scn, devices, no_of_found_devices,
          dev_idx, measurements_data, json_records, open, sessions, subscribed,
          bus_ops, notified, measurements, serial_number, formatted_command_data,
          formatted_data, exc, delivered, t_fields, t_bytes, t_decoded, t_mv, t_payload,
          t_result>>

progVars == <<found_devices, command_data, pc, mains, reader, scn, devices,
              no_of_found_devices, dev_idx, measurements_data, json_records, open,
              sessions, subscribed, bus_ops, notified, measurements, serial_number,
              formatted_command_data, formatted_data, exc, delivered>>

codecVars == <<t_fields, t_bytes, t_decoded>>

batteryVars == <<t_mv, t_payload, t_result>>

testVars == <<t_fields, t_bytes, t_decoded, t_mv, t_payload, t_result>>

(***************************************************************************)
(* Bounds of the model.                                                    *)
(***************************************************************************)
MaxMains == 2       \* runs of main() in one interpreter
MaxFound == 3       \* scan passes are explored while the list is no longer
MvFrom == 2190      \* raw battery fields explored, in millivolts: from
MvTo == 3210        \* ... to
MaxPayloadLen == 33 \* longest notification explored, in bytes
MaxDeliveries == 2  \* notifications delivered in one run of SpecExchange

(***************************************************************************)
(* Program constants.                                                      *)
(***************************************************************************)
AIRTHINGS_ID == 820         \* 0x0334
Scans == 2                  \* discover(scans=2)
TRIGGER == 109              \* 0x6d
WaitBound == 2              \* asyncio.wait_for(event.wait(), 2)
HEADER_LEN == 2             \* self.command_data[2:]

None == <<>>
Some(v) == <<v>>

EmptyDict == [k \in {} |-> 0]

(***************************************************************************)
(* struct: little-endian packing without padding ("<").  A format is the   *)
(* sequence of its field widths in bytes.                                  *)
(***************************************************************************)
RECURSIVE SumSeq(_)
SumSeq(s) == IF s = <<>> THEN 0 ELSE Head(s) + SumSeq(Tail(s))

Repeat(n, v) == [i \in 1..n |-> v]

\* "<4B8H" and "<L12B6H"
FMT_MEASUREMENTS == Repeat(4, 1) \o Repeat(8, 2)
FMT_COMMAND == <<4>> \o Repeat(12, 1) \o Repeat(6, 2)

calcsize(fmt) == SumSeq(fmt)

RECURSIVE LEValue(_)
LEValue(bs) == IF bs = <<>> THEN 0 ELSE Head(bs) + 256 * LEValue(Tail(bs))

RECURSIVE BEValue(_)
BEValue(bs) == IF bs = <<>> THEN 0 ELSE bs[Len(bs)] + 256 * BEValue(SubSeq(bs, 1, Len(bs) - 1))

LEBytes(v, w) == [i \in 1..w |-> (v \div (256 ^ (i - 1))) % 256]

RECURSIVE PackFields(_, _)
PackFields(fmt, vals) ==
    IF fmt = <<>> THEN <<>>
    ELSE LEBytes(Head(vals), Head(fmt)) \o PackFields(Tail(fmt), Tail(vals))

\* struct.pack(fmt, *vals) for values inside the fields' ranges
pack(fmt, vals) == PackFields(fmt, vals)

RECURSIVE UnpackFields(_, _)
UnpackFields(fmt, buf) ==
    IF fmt = <<>> THEN <<>>
    ELSE <<LEValue(SubSeq(buf, 1, Head(fmt)))>>
         \o UnpackFields(Tail(fmt), SubSeq(buf, Head(fmt) + 1, Len(buf)))

RECURSIVE UnpackFieldsBE(_, _)
UnpackFieldsBE(fmt, buf) ==
    IF fmt = <<>> THEN <<>>
    ELSE <<BEValue(SubSeq(buf, 1, Head(fmt)))>>
         \o UnpackFieldsBE(Tail(fmt), SubSeq(buf, Head(fmt) + 1, Len(buf)))

\* a decoder that takes the fields from any buffer that is long enough
unpack_from_start(fmt, buf) ==
    IF Len(buf) < calcsize(fmt) THEN [ok |-> FALSE, val |-> <<>>]
    ELSE [ok |-> TRUE, val |-> UnpackFields(fmt, buf)]

\* the same decoder reading each field most significant byte first
unpack_bigendian(fmt, buf) ==
    IF Len(buf) # calcsize(fmt) THEN [ok |-> FALSE, val |-> <<>>]
    ELSE [ok |-> TRUE, val |-> UnpackFieldsBE(fmt, buf)]

\* struct.unpack(fmt, buf): struct.error unless len(buf) == calcsize(fmt)
unpack(fmt, buf) ==
    IF Len(buf) # calcsize(fmt) THEN [ok |-> FALSE, val |-> <<>>]
    ELSE [ok |-> TRUE, val |-> UnpackFields(fmt, buf)]

(***************************************************************************)
(* Natural numbers of any size: little-endian sequences of limbs below     *)
(* Base, without leading zero limbs (TLC's integers are 32 bits wide; a    *)
(* double's significand is 53).  Apart from carry propagation and long     *)
(* division the operators are written without recursion.                   *)
(***************************************************************************)
RECURSIVE IntBitLen(_)
IntBitLen(n) == IF n = 0 THEN 0 ELSE 1 + IntBitLen(n \div 2)

Base == 2 ^ 12
LimbBits == IntBitLen(Base - 1)

Abs(n) == IF n < 0 THEN -n ELSE n
Sign(n) == IF n < 0 THEN -1 ELSE IF n = 0 THEN 0 ELSE 1
Min(a, b) == IF a < b THEN a ELSE b
Max(a, b) == IF a > b THEN a ELSE b
SetMax(S) == CHOOSE x \in S : \A y \in S : y <= x

\* Only({f(a) : a \in {x}}) is f(x) with x evaluated once, before f starts.
Only(S) == CHOOSE v \in S : TRUE

B1 == <<1>>

Limb(a, i) == IF i >= 1 /\ i <= Len(a) THEN a[i] ELSE 0

BNorm(a) ==
    LET nz == {i \in 1..Len(a) : a[i] # 0}
    IN IF nz = {} THEN <<>> ELSE SubSeq(a, 1, SetMax(nz))

RECURSIVE BInt(_)
BInt(n) == IF n <= 0 THEN <<>> ELSE <<n % Base>> \o BInt(n \div Base)

RECURSIVE BToInt(_)
BToInt(a) == IF a = <<>> THEN 0 ELSE Head(a) + Base * BToInt(Tail(a))

\* columns (any integers) to limbs, from the low end, for a result >= 0
RECURSIVE BCarry(_, _)
BCarry(cols, c) ==
    IF cols = <<>> THEN BInt(c)
    ELSE <<(Head(cols) + c) % Base>> \o BCarry(Tail(cols), (Head(cols) + c) \div Base)

BAdd(a, b) == BNorm(BCarry([i \in 1..Max(Len(a), Len(b)) |-> Limb(a, i) + Limb(b, i)], 0))

\* a - b for a >= b
BSub(a, b) == BNorm(BCarry([i \in 1..Len(a) |-> a[i] - Limb(b, i)], 0))

\* a * k for 0 <= k <= Base
BMulSmall(a, k) == BNorm(BCarry([i \in 1..Len(a) |-> a[i] * k], 0))

BMul(a, b) ==
    BNorm(BCarry([k \in 1..(Len(a) + Len(b) - 1) |->
                     SumSeq([i \in 1..Len(a) |-> a[i] * Limb(b, k + 1 - i)])], 0))

\* -1, 0, 1 as a < b, a = b, a > b
BCmp(a, b) ==
    IF Len(a) # Len(b) THEN (IF Len(a) < Len(b) THEN -1 ELSE 1)
    ELSE LET D == {i \in 1..Len(a) : a[i] # b[i]}
         IN IF D = {} THEN 0
            ELSE IF a[SetMax(D)] < b[SetMax(D)] THEN -1 ELSE 1

\* a * 2^n
BShl(a, n) ==
    LET z == n \div LimbBits
        t == n % LimbBits
    IN BNorm([i \in 1..(Len(a) + z + 1) |->
                IF i <= z THEN 0
                ELSE ((Limb(a, i - z) * (2 ^ t)) % Base)
                     + (Limb(a, i - z - 1) \div (2 ^ (LimbBits - t)))])

\* a \div 2^n
BShr(a, n) ==
    LET z == n \div LimbBits
        t == n % LimbBits
    IN BNorm([i \in 1..Max(0, Len(a) - z) |->
                (a[i + z] \div (2 ^ t))
                + ((Limb(a, i + z + 1) % (2 ^ t)) * (2 ^ (LimbBits - t)))])

\* a % 2^n # 0
BLowBits(a, n) ==
    \E i \in 1..Len(a) :
        \/ i <= n \div LimbBits /\ a[i] # 0
        \/ i = n \div LimbBits + 1 /\ a[i] % (2 ^ (n % LimbBits)) # 0

BitLen(a) == IF a = <<>> THEN 0 ELSE LimbBits * (Len(a) - 1) + IntBitLen(a[Len(a)])

BBit(a, i) == (Limb(a, i \div LimbBits + 1) \div (2 ^ (i % LimbBits))) % 2

BOdd(a) == Limb(a, 1) % 2 = 1

\* r \div b for r < b * Base when b's top limb is at least Base / 2: the
\* estimate from the top limbs is at most 2 too large (Knuth 4.3.1, Theorem B)
BDigit(r, b) ==
    LET est == Min(Base - 1, (Limb(r, Len(b) + 1) * Base + Limb(r, Len(b))) \div b[Len(b)])
    IN IF BCmp(BMulSmall(b, est), r) <= 0 THEN est
       ELSE IF BCmp(BMulSmall(b, est - 1), r) <= 0 THEN est - 1
       ELSE est - 2

\* one step of long division: hi is the result for the higher limbs, h the next limb
BDivDigit(r1, hi, b) ==
    Only({[q |-> BNorm(<<d>> \o hi.q), r |-> BSub(r1, BMulSmall(b, d))] :
             d \in {BDigit(r1, b)}})

BDivLimb(h, hi, b) == Only({BDivDigit(r1, hi, b) : r1 \in {BNorm(<<h>> \o hi.r)}})

RECURSIVE BDivNorm(_, _)
BDivNorm(a, b) ==
    IF Len(a) < Len(b) THEN [q |-> <<>>, r |-> a]
    ELSE Only({BDivLimb(Head(a), hi, b) : hi \in {BDivNorm(Tail(a), b)}})

\* long division by b > 0: quotient q, remainder r
BDivMod(a, b) ==
    LET s == LimbBits - IntBitLen(b[Len(b)])
    IN Only({[q |-> d.q, r |-> BShr(d.r, s)] : d \in {BDivNorm(BShl(a, s), BShl(b, s))}})

(***************************************************************************)
(* IEEE-754 binary64 as Python's float: a value is s * m * 2^e with s the  *)
(* sign (-1, 0, 1) and, when s # 0, 2^52 <= m < 2^53.  Every operation     *)
(* returns the double nearest to the exact result, ties to even.  The      *)
(* values met here are far from the subnormal and overflow ranges, and     *)
(* the sign of a zero is not kept (0.0 == -0.0 in Python).                 *)
(***************************************************************************)
MantBits == 53

FZero == [s |-> 0, m |-> <<>>, e |-> 0]

Normalised(s, m, e) ==
    IF BitLen(m) > MantBits THEN [s |-> s, m |-> BShr(m, 1), e |-> e + 1]
    ELSE [s |-> s, m |-> m, e |-> e]

\* q + 1 or q: round to nearest, ties to even, from the first dropped bit
\* and whether any lower bit is set
RoundUp(q, halfbit, sticky) ==
    IF halfbit /\ (sticky \/ BOdd(q)) THEN BAdd(q, B1) ELSE q

\* the double nearest to s * p * 2^e for a natural p > 0
RoundDyadicValue(s, p, e) ==
    LET sh == BitLen(p) - MantBits
    IN IF sh <= 0 THEN [s |-> s, m |-> BShl(p, -sh), e |-> e + sh]
       ELSE Normalised(s, RoundUp(BShr(p, sh), BBit(p, sh - 1) = 1, BLowBits(p, sh - 1)),
                       e + sh)

RoundDyadic(s, p, e) ==
    IF s = 0 THEN FZero
    ELSE Only({IF a = <<>> THEN FZero ELSE RoundDyadicValue(s, a, e) : a \in {p}})

\* p / q scaled by 2^k so that the quotient has MantBits bits
RoundScaled(s, p, q, e, k) ==
    LET num == IF k >= 0 THEN BShl(p, k) ELSE p
        den == IF k >= 0 THEN q ELSE BShl(q, -k)
    IN Only({Normalised(s, RoundUp(d.q, BCmp(BShl(d.r, 1), den) >= 0,
                                    BCmp(BShl(d.r, 1), den) > 0), e - k) :
                d \in {BDivMod(num, den)}})

\* with d the difference of the bit lengths, p / q is in [1, 2) * 2^d or in
\* (1/2, 1) * 2^d
RoundValue(s, p, q, e) ==
    LET d == BitLen(p) - BitLen(q)
    IN IF BCmp(BShl(p, Max(0, -d)), BShl(q, Max(0, d))) >= 0
       THEN RoundScaled(s, p, q, e, MantBits - d - 1)
       ELSE RoundScaled(s, p, q, e, MantBits - d)

\* the double nearest to s * (p / q) * 2^e, for naturals p > 0 and q > 0
RoundToDouble(s, p, q, e) ==
    IF s = 0 THEN FZero
    ELSE Only({RoundValue(s, a, b, e) : a \in {p}, b \in {q}})

\* float(n) for an int n
FInt(n) == RoundDyadic(Sign(n), BInt(Abs(n)), 0)

\* the float literal num/den written in decimal, e.g. 2.2 is FLit(22, 10)
FLit(num, den) == RoundToDouble(1, BInt(num), BInt(den), 0)

FNeg(x) == [x EXCEPT !.s = -x.s]

\* the exact sum is a multiple of 2^e for the smaller exponent e
FAddValues(x, y) ==
    IF x.s = 0 THEN y
    ELSE IF y.s = 0 THEN x
    ELSE LET e == Min(x.e, y.e)
             a == BShl(x.m, x.e - e)
             b == BShl(y.m, y.e - e)
             c == BCmp(a, b)
         IN IF x.s = y.s THEN RoundDyadic(x.s, BAdd(a, b), e)
            ELSE IF c = 0 THEN FZero
            ELSE IF c > 0 THEN RoundDyadic(x.s, BSub(a, b), e)
            ELSE RoundDyadic(y.s, BSub(b, a), e)

FAdd(x, y) == Only({FAddValues(a, b) : a \in {x}, b \in {y}})

FSub(x, y) == FAdd(x, FNeg(y))

FMul(x, y) ==
    Only({RoundDyadic(a.s * b.s, BMul(a.m, b.m), a.e + b.e) : a \in {x}, b \in {y}})

\* x / y for y # 0 (Python raises ZeroDivisionError for y == 0)
FDiv(x, y) ==
    Only({RoundToDouble(a.s * b.s, a.m, b.m, a.e - b.e) : a \in {x}, b \in {y}})

FRoundValue(x) ==
    IF x.s = 0 THEN 0
    ELSE IF x.e >= 0 THEN x.s * BToInt(BShl(x.m, x.e))
    ELSE x.s * BToInt(RoundUp(BShr(x.m, -x.e), BBit(x.m, -x.e - 1) = 1,
                              BLowBits(x.m, -x.e - 1)))

\* round(x): the nearest int, ties to even
FRound(x) == Only({FRoundValue(a) : a \in {x}})

(***************************************************************************)
(* read_command_data, lines 112-129: the defaults and the decoding of a    *)
(* captured notification.                                                  *)
(***************************************************************************)
voltage_max == FLit(32, 10)
voltage_min == FLit(22, 10)

\* raw_command_data[17] / 1000.0
battery_voltage_of(raw) == FDiv(FInt(raw), FInt(1000))

\* the percentage without max(0, min(100, ...))
battery_percentage_unclamped(bv) ==
    FRound(FMul(FDiv(FSub(bv, voltage_min), FSub(voltage_max, voltage_min)), FInt(100)))

\* max(0, min(100, round((battery_voltage - voltage_min) / (voltage_max - voltage_min) * 100)))
battery_percentage_of(bv) ==
    Max(0, Min(100, FRound(FMul(FDiv(FSub(bv, voltage_min),
                                     FSub(voltage_max, voltage_min)),
                                FInt(100)))))

default_command_data ==
    [illuminance |-> 0, battery_voltage |-> FZero, battery_percentage |-> 0]

\* Python index i of a tuple is position i + 1 of the sequence
At(tuple, i) == tuple[i + 1]

format_command_data(raw_command_data) ==
    Only({[illuminance |-> At(raw_command_data, 2),
           battery_voltage |-> bv,
           battery_percentage |-> battery_percentage_of(bv)] :
             bv \in {battery_voltage_of(At(raw_command_data, 17))}})

\* the payload with its header left in place
whole_payload(data) == data

\* self.command_data[2:]
after_header(data) == SubSeq(data, HEADER_LEN + 1, Len(data))

\* lines 122-129 for a captured notification: ok is FALSE when struct.unpack raises
decode_command_data(data) ==
    LET raw == unpack(FMT_COMMAND, after_header(data))
    IN IF raw.ok THEN [ok |-> TRUE, val |-> format_command_data(raw.val)]
       ELSE [ok |-> FALSE, val |-> default_command_data]

(***************************************************************************)
(* The transport (bleak) and what it can deliver.                          *)
(***************************************************************************)
Advertisers ==
    {[address |-> "A", name |-> "Wave A", manufacturer_data |-> {AIRTHINGS_ID}],
     [address |-> "B", name |-> "Wave B", manufacturer_data |-> {AIRTHINGS_ID}],
     [address |-> "C", name |-> "Phone", manufacturer_data |-> {76}]}

DeviceAt(address) == CHOOSE d \in Advertisers : d.address = address

\* what one scan pass can return: nothing, a Wave, two Waves, a phone, a phone
\* and a Wave
ScanResults ==
    {<<>>, <<DeviceAt("A")>>, <<DeviceAt("A"), DeviceAt("B")>>, <<DeviceAt("C")>>,
     <<DeviceAt("C"), DeviceAt("A")>>}

ServiceLists == {<<>>, <<"b42e1c08-ade7-11e4-89d3-123b93f75cba">>}

\* values of the measurement characteristic: humidity 40 %, 21.5 C, 1013 hPa
SampleFields == <<1, 80, 0, 0, 12, 15, 2150, 50650, 600, 120, 0, 0>>
ZeroPressureFields == [SampleFields EXCEPT ![8] = 0]

MeasurementReads ==
    {pack(FMT_MEASUREMENTS, SampleFields),
     pack(FMT_MEASUREMENTS, ZeroPressureFields),
     SubSeq(pack(FMT_MEASUREMENTS, SampleFields), 1, 16),
     pack(FMT_MEASUREMENTS, SampleFields) \o <<0, 0, 0, 0>>}

\* a notification: 2 header bytes, then the "<L12B6H" fields
CommandFields(illuminance, mv) ==
    <<0, 0, illuminance>> \o Repeat(10, 0) \o <<0, 0, 0, 0, mv, 0>>

Notification(illuminance, mv) ==
    <<TRIGGER, 0>> \o pack(FMT_COMMAND, CommandFields(illuminance, mv))

CommandNotifications ==
    {Notification(10, 2700),
     SubSeq(Notification(10, 2700), 1, 22)}

MODEL_NUMBER == <<50, 57, 51, 48>>      \* b"2930"
SERIAL_NUMBER == <<48, 48, 49>>         \* b"001"

\* bytes.decode('utf-8') of ASCII bytes: the code points are the bytes
decode_utf8(bytes) == bytes


(***************************************************************************)
(* calc_saturation_vapor_pressure and calc_absolute_humidity, lines        *)
(* 144-160.  math.exp has no exact model here: ewt is known only to be     *)
(* positive, so the results are kept as their signs.  fp is computed.      *)
(***************************************************************************)
\* fp without its first two terms
fp_of_reduced(p) == FNeg(FDiv(FLit(74, 1000), p))

\* fp = 1.0016 + 3.15 * math.pow(10, -6) * p - 0.074 / p, for p # 0
fp_of(p) ==
    FSub(FAdd(FLit(10016, 10000), FMul(FMul(FLit(315, 100), FLit(1, 1000000)), p)),
         FDiv(FLit(74, 1000), p))

\* sign of fp * ewt; zero_division when 0.074 / p raises
\* a saturation vapor pressure that is defined for every pressure
calc_saturation_vapor_pressure_guarded(t, p) ==
    [zero_division |-> FALSE, sign |-> IF p.s = 0 THEN 1 ELSE fp_of(p).s]

calc_saturation_vapor_pressure(t, p) ==
    IF p.s = 0 THEN [zero_division |-> TRUE, sign |-> 0]
    ELSE [zero_division |-> FALSE, sign |-> fp_of(p).s]

\* sign of (rh * svp) / (461.5 * (t + 273.15)) * 1000
calc_absolute_humidity(rh, t, p) ==
    LET svp == calc_saturation_vapor_pressure(t, p)
        den == FMul(FLit(4615, 10), FAdd(t, FLit(27315, 100)))
    IN IF svp.zero_division \/ den.s = 0 THEN [zero_division |-> TRUE, sign |-> 0]
       ELSE [zero_division |-> FALSE, sign |-> rh.s * svp.sign * den.s]

(***************************************************************************)
(* read_and_format, lines 73-92: the reading assembled from the decoded    *)
(* measurements, the serial string and the command data.  The timestamp    *)
(* is the number of session events before the assembly.                    *)
(***************************************************************************)
format_reading(m, serial, cmd, now) ==
    LET temperature == FDiv(FInt(At(m, 6)), FInt(100))
        pressure == FDiv(FInt(At(m, 7)), FInt(50))
        humidity_rel == FDiv(FInt(At(m, 1)), FInt(2))
        humidity_abs == calc_absolute_humidity(humidity_rel, temperature, pressure)
    IN IF humidity_abs.zero_division THEN [ok |-> FALSE, val |-> EmptyDict]
       ELSE [ok |-> TRUE,
             val |-> [radon_day_average |-> At(m, 4),
                      radon_total_average |-> At(m, 5),
                      temperature |-> temperature,
                      pressure |-> pressure,
                      co2 |-> FMul(FInt(At(m, 8)), FInt(1)),
                      voc |-> FMul(FInt(At(m, 9)), FInt(1)),
                      timestamp |-> now,
                      serial_no |-> serial,
                      illuminance |-> cmd.illuminance,
                      battery_voltage |-> cmd.battery_voltage,
                      battery_percentage |-> cmd.battery_percentage,
                      humidity_rel |-> humidity_rel,
                      humidity_abs |-> humidity_abs.sign]]

(***************************************************************************)
(* discover, lines 36-49.                                                  *)
(***************************************************************************)
\* a list that every instance starts empty
instance_found_devices_own(class_list) == <<>>

\* lines 19 and 22-23: __init__ binds no found_devices, so self.found_devices
\* of a new instance is the list of the class
instance_found_devices(class_list) == class_list

\* lines 62-63: the list itself is returned
get_found_devices(list) == list

\* a filter that lets every device through
is_airthings_any(device) == TRUE

\* line 41
is_airthings(device) == AIRTHINGS_ID \in device.manufacturer_data

\* lines 42-43
passes_address_check(found, device) ==
    \/ Len(found) = 0
    \/ \E i \in 1..Len(found) : found[i].address # device.address

\* an insertion at the front of the list
append_device_front(found, device) == <<device>> \o found

\* line 45
append_device(found, device) == Append(found, device)

\* lines 38-45: the loop over the devices of one scan pass
RECURSIVE scan_devices(_, _)
scan_devices(found, scanned) ==
    IF scanned = <<>> THEN found
    ELSE scan_devices(
             IF is_airthings(Head(scanned)) /\ passes_address_check(found, Head(scanned))
             THEN append_device(found, Head(scanned))
             ELSE found,
             Tail(scanned))

\* line 49
discover_result(found) == Len(found)

(***************************************************************************)
(* Connection and subscription bookkeeping of BleakClient.                 *)
(***************************************************************************)
\* a test that takes every service list for non-empty
has_services_always(services) == TRUE

\* line 55: if services
has_services(services) == services # <<>>

\* an exit that leaves the connection open
aexit_keeps_open(connections, i) == connections

\* line 52, leaving the async with block: the connection is closed
aexit(connections, i) == connections \ {i}

\* a subscription request that changes nothing
start_notify_skipped(active) == active

\* line 109: the subscription on COMMAND_UUID is active when the call returns
start_notify(active) == TRUE

\* an exchange that leaves the subscription as it is
stop_notify_skipped(active) == active

\* line 130
stop_notify(active) == FALSE

\* an event that the handler sets
event_set_by_handler(was_notified) == was_notified

\* lines 107 and 118: nothing calls event.set(), so event.wait() never returns
event_set(was_notified) == FALSE

\* lines 117-120: how the wait ends
wait_outcome(was_notified) == IF event_set(was_notified) THEN "event" ELSE "timeout"

\* a handler that keeps the first payload it was given
command_data_handler_keep_first(slot, data) == IF slot = None THEN Some(data) ELSE slot

\* line 136
command_data_handler(slot, data) == Some(data)

AwaitingWithSubscription == {"write_gatt_char", "wait", "stop_notify", "client_exit"}

(***************************************************************************)
(* The program.                                                            *)
(***************************************************************************)
discoverVars == <<found_devices, scn, devices, no_of_found_devices>>
mainVars == <<dev_idx, measurements_data, json_records, sessions>>
sessionVars == <<open, subscribed, bus_ops, notified, measurements, serial_number,
                 formatted_command_data, formatted_data>>

Event(op, char, data) == [op |-> op, char |-> char, data |-> data]
Ops(log) == {log[i].op : i \in 1..Len(log)}

TestIdle ==
    /\ t_fields = <<>>
    /\ t_bytes = <<>>
    /\ t_decoded = None
    /\ t_mv = 0
    /\ t_payload = <<>>
    /\ t_result = None

ProgInit ==
    /\ found_devices = <<>>
    /\ command_data = None
    /\ pc = "idle"
    /\ mains = 0
    /\ reader = 0
    /\ scn = 0
    /\ devices = <<>>
    /\ no_of_found_devices = None
    /\ dev_idx = 0
    /\ measurements_data = <<>>
    /\ json_records = None
    /\ open = {}
    /\ sessions = <<>>
    /\ subscribed = FALSE
    /\ bus_ops = <<>>
    /\ notified = FALSE
    /\ measurements = None
    /\ serial_number = None
    /\ formatted_command_data = None
    /\ formatted_data = None
    /\ exc = "none"
    /\ delivered = <<>>

Init == ProgInit /\ TestIdle

\* main, lines 173-174: a new reader, and discover() starts
MainStart ==
    /\ pc = "idle"
    /\ mains < MaxMains
    /\ mains' = mains + 1
    /\ reader' = mains + 1
    /\ scn' = 0
    /\ dev_idx' = 0
    /\ measurements_data' = <<>>
    /\ sessions' = <<>>
    /\ command_data' = None
    /\ pc' = "discover"
    /\ found_devices' = instance_found_devices(found_devices)
    /\ UNCHANGED <<devices, no_of_found_devices, json_records, exc>>
    /\ UNCHANGED sessionVars
    /\ UNCHANGED testVars
    /\ UNCHANGED delivered

\* discover, lines 36-45: BleakScanner.discover returns and its devices are filtered
ScanPass(scanned) ==
    /\ pc = "discover"
    /\ scn < Scans
    /\ Len(scan_devices(found_devices, scanned)) <= MaxFound
    /\ devices' = scanned
    /\ found_devices' = scan_devices(found_devices, scanned)
    /\ scn' = scn + 1
    /\ UNCHANGED <<no_of_found_devices, pc, mains, reader, command_data, exc>>
    /\ UNCHANGED mainVars
    /\ UNCHANGED sessionVars
    /\ UNCHANGED testVars
    /\ UNCHANGED delivered

\* discover, lines 47-49, and main, lines 176-180 up to the first connect
DiscoverReturn ==
    /\ pc = "discover"
    /\ scn = Scans
    /\ no_of_found_devices' = Some(discover_result(found_devices))
    /\ IF discover_result(found_devices) > 0 /\ Len(get_found_devices(found_devices)) > 0
       THEN dev_idx' = 1 /\ pc' = "connect"
       ELSE dev_idx' = 0 /\ pc' = "idle"
    /\ devices' = <<>>
    /\ UNCHANGED <<found_devices, scn, mains, reader, command_data, exc>>
    /\ UNCHANGED <<measurements_data, json_records, sessions>>
    /\ UNCHANGED sessionVars
    /\ UNCHANGED testVars
    /\ UNCHANGED delivered

\* connect, line 52: BleakClient.__aenter__ connects, or raises
ClientEnter(ok) ==
    /\ pc = "connect"
    /\ sessions' = Append(sessions, dev_idx)
    /\ bus_ops' = <<Event("connect", get_found_devices(found_devices)[dev_idx].address, <<>>)>>
    /\ notified' = FALSE
    /\ measurements' = None
    /\ serial_number' = None
    /\ formatted_command_data' = None
    /\ formatted_data' = None
    /\ IF ok
       THEN open' = open \cup {dev_idx} /\ pc' = "get_services" /\ exc' = "none"
       ELSE open' = open /\ pc' = "raised" /\ exc' = "BleakError"
    /\ UNCHANGED <<subscribed, command_data, mains, reader>>
    /\ UNCHANGED <<dev_idx, measurements_data, json_records>>
    /\ UNCHANGED discoverVars
    /\ UNCHANGED testVars
    /\ UNCHANGED delivered

\* connect, lines 54-58
GetServices(services) ==
    /\ pc = "get_services"
    /\ bus_ops' = Append(bus_ops, Event("get_services", "", services))
    /\ IF has_services(services)
       THEN formatted_data' = formatted_data /\ pc' = "read_measurements"
       ELSE formatted_data' = Some(EmptyDict) /\ pc' = "client_exit"
    /\ UNCHANGED <<open, subscribed, notified, measurements, serial_number,
                   formatted_command_data, command_data, mains, reader, exc>>
    /\ UNCHANGED mainVars
    /\ UNCHANGED discoverVars
    /\ UNCHANGED testVars
    /\ UNCHANGED delivered

\* read_measurements, lines 96-97
ReadMeasurements(byte_measurements) ==
    /\ pc = "read_measurements"
    /\ bus_ops' = Append(bus_ops, Event("read_gatt_char", "CHARACTERISTIC_UUID", byte_measurements))
    /\ IF unpack(FMT_MEASUREMENTS, byte_measurements).ok
       THEN /\ measurements' = Some(unpack(FMT_MEASUREMENTS, byte_measurements).val)
            /\ pc' = "read_model_number"
            /\ exc' = exc
       ELSE /\ measurements' = measurements
            /\ pc' = "client_exit"
            /\ exc' = "struct.error"
    /\ UNCHANGED <<open, subscribed, notified, serial_number, formatted_command_data,
                   formatted_data, command_data, mains, reader>>
    /\ UNCHANGED mainVars
    /\ UNCHANGED discoverVars
    /\ UNCHANGED testVars
    /\ UNCHANGED delivered

\* a model number read that is followed by the exchange at once
ReadModelNumberOnly ==
    /\ pc = "read_model_number"
    /\ bus_ops' = Append(bus_ops, Event("read_gatt_char", "MODEL_NUMBER_UUID", <<>>))
    /\ serial_number' = Some(decode_utf8(MODEL_NUMBER))
    /\ pc' = "start_notify"
    /\ UNCHANGED <<open, subscribed, notified, measurements, formatted_command_data,
                   formatted_data, command_data, mains, reader, exc>>
    /\ UNCHANGED mainVars
    /\ UNCHANGED discoverVars
    /\ UNCHANGED testVars
    /\ UNCHANGED delivered

\* read_serial_number, line 101
ReadModelNumber ==
    /\ pc = "read_model_number"
    /\ bus_ops' = Append(bus_ops, Event("read_gatt_char", "MODEL_NUMBER_UUID", <<>>))
    /\ pc' = "read_serial_number"
    /\ UNCHANGED <<open, subscribed, notified, measurements, serial_number,
                   formatted_command_data, formatted_data, command_data, mains, reader, exc>>
    /\ UNCHANGED mainVars
    /\ UNCHANGED discoverVars
    /\ UNCHANGED testVars
    /\ UNCHANGED delivered

\* read_serial_number, lines 102-104
ReadSerialNumber ==
    /\ pc = "read_serial_number"
    /\ bus_ops' = Append(bus_ops, Event("read_gatt_char", "SERIAL_NUMBER_UUID", <<>>))
    /\ serial_number' = Some(decode_utf8(MODEL_NUMBER) \o decode_utf8(SERIAL_NUMBER))
    /\ pc' = "start_notify"
    /\ UNCHANGED <<open, subscribed, notified, measurements, formatted_command_data,
                   formatted_data, command_data, mains, reader, exc>>
    /\ UNCHANGED mainVars
    /\ UNCHANGED discoverVars
    /\ UNCHANGED testVars
    /\ UNCHANGED delivered

\* read_command_data, lines 107-109
StartNotify ==
    /\ pc = "start_notify"
    /\ bus_ops' = Append(bus_ops, Event("start_notify", "COMMAND_UUID", <<>>))
    /\ subscribed' = start_notify(subscribed)
    /\ pc' = "write_gatt_char"
    /\ UNCHANGED <<open, notified, measurements, serial_number, formatted_command_data,
                   formatted_data, command_data, mains, reader, exc>>
    /\ UNCHANGED mainVars
    /\ UNCHANGED discoverVars
    /\ UNCHANGED testVars
    /\ UNCHANGED delivered

\* read_command_data, lines 110-118: the trigger is written, the defaults are
\* set and the wait for the event starts
WriteTrigger ==
    /\ pc = "write_gatt_char"
    /\ bus_ops' = Append(bus_ops, Event("write_gatt_char", "COMMAND_UUID", <<TRIGGER>>))
    /\ formatted_command_data' = Some(default_command_data)
    /\ pc' = "wait"
    /\ UNCHANGED <<open, subscribed, notified, measurements, serial_number,
                   formatted_data, command_data, mains, reader, exc>>
    /\ UNCHANGED mainVars
    /\ UNCHANGED discoverVars
    /\ UNCHANGED testVars
    /\ UNCHANGED delivered

\* command_data_handler, lines 134-136, called by the transport while the task
\* is suspended and the subscription is active
Notify(data) ==
    /\ subscribed
    /\ pc \in AwaitingWithSubscription
    /\ command_data' = command_data_handler(command_data, data)
    /\ notified' = TRUE
    /\ UNCHANGED <<open, bus_ops, subscribed, measurements, serial_number, formatted_command_data,
                   formatted_data, pc, mains, reader, exc>>
    /\ UNCHANGED mainVars
    /\ UNCHANGED discoverVars
    /\ UNCHANGED testVars
    /\ UNCHANGED delivered

\* read_command_data, lines 118-129: nothing sets the event, so the wait ends
\* by its timeout after WaitBound seconds; then the slot is decoded
WaitTimeout ==
    /\ pc = "wait"
    /\ IF command_data = None
       THEN /\ bus_ops' = Append(bus_ops, Event(wait_outcome(notified), "", <<WaitBound>>))
            /\ formatted_command_data' = formatted_command_data
            /\ pc' = "stop_notify"
            /\ exc' = exc
       ELSE /\ bus_ops' = bus_ops \o <<Event(wait_outcome(notified), "", <<WaitBound>>),
                                       Event("unpack", "", <<>>)>>
            /\ IF decode_command_data(command_data[1]).ok
               THEN /\ formatted_command_data' =
                           Some(decode_command_data(command_data[1]).val)
                    /\ pc' = "stop_notify"
                    /\ exc' = exc
               ELSE /\ formatted_command_data' = formatted_command_data
                    /\ pc' = "client_exit"
                    /\ exc' = "struct.error"
    /\ UNCHANGED <<open, subscribed, notified, measurements, serial_number,
                   formatted_data, command_data, mains, reader>>
    /\ UNCHANGED mainVars
    /\ UNCHANGED discoverVars
    /\ UNCHANGED testVars
    /\ UNCHANGED delivered

\* read_command_data, lines 130-132, then read_and_format, lines 73-92
StopNotify ==
    /\ pc = "stop_notify"
    /\ subscribed' = stop_notify(subscribed)
    /\ bus_ops' = bus_ops \o <<Event("stop_notify", "COMMAND_UUID", <<>>),
                               Event("format", "", <<>>)>>
    /\ LET r == format_reading(measurements[1], serial_number[1],
                               formatted_command_data[1], Len(bus_ops) + 1)
       IN IF r.ok
          THEN formatted_data' = Some(r.val) /\ exc' = exc
          ELSE formatted_data' = formatted_data /\ exc' = "ZeroDivisionError"
    /\ pc' = "client_exit"
    /\ UNCHANGED <<open, notified, measurements, serial_number, formatted_command_data,
                   command_data, mains, reader>>
    /\ UNCHANGED mainVars
    /\ UNCHANGED discoverVars
    /\ UNCHANGED testVars
    /\ UNCHANGED delivered

\* a transport call of the session raises instead of returning
BusError ==
    /\ pc \in {"get_services", "read_measurements", "read_model_number",
               "read_serial_number", "start_notify", "write_gatt_char", "stop_notify"}
    /\ bus_ops' = Append(bus_ops, Event("error", pc, <<>>))
    /\ exc' = "BleakError"
    /\ pc' = "client_exit"
    /\ UNCHANGED <<open, subscribed, notified, measurements, serial_number,
                   formatted_command_data, formatted_data, command_data, mains, reader>>
    /\ UNCHANGED mainVars
    /\ UNCHANGED discoverVars
    /\ UNCHANGED testVars
    /\ UNCHANGED delivered

\* connect, lines 52 and 60: BleakClient.__aexit__ disconnects; then either the
\* exception leaves main, or main (lines 181-189) records the reading and goes on
ClientExit ==
    /\ pc = "client_exit"
    /\ open' = aexit(open, dev_idx)
    /\ subscribed' = FALSE
    /\ IF exc # "none"
       THEN /\ pc' = "raised"
            /\ UNCHANGED <<bus_ops, notified, measurements, serial_number,
                           formatted_command_data, formatted_data>>
            /\ UNCHANGED mainVars
       ELSE /\ measurements_data' =
                   Append(measurements_data,
                          [device_name |-> get_found_devices(found_devices)[dev_idx].name,
                           measurements |-> formatted_data[1]])
            /\ bus_ops' = <<>>
            /\ notified' = FALSE
            /\ measurements' = None
            /\ serial_number' = None
            /\ formatted_command_data' = None
            /\ formatted_data' = None
            /\ sessions' = sessions
            /\ IF dev_idx < Len(get_found_devices(found_devices))
               THEN dev_idx' = dev_idx + 1 /\ pc' = "connect" /\ json_records' = json_records
               ELSE dev_idx' = dev_idx /\ pc' = "idle"
                    /\ json_records' = Some(Len(measurements_data) + 1)
    /\ UNCHANGED <<command_data, mains, reader, exc>>
    /\ UNCHANGED discoverVars
    /\ UNCHANGED testVars
    /\ UNCHANGED delivered

Next ==
    \/ MainStart
    \/ \E scanned \in ScanResults : ScanPass(scanned)
    \/ DiscoverReturn
    \/ \E ok \in BOOLEAN : ClientEnter(ok)
    \/ \E services \in ServiceLists : GetServices(services)
    \/ \E byte_measurements \in MeasurementReads : ReadMeasurements(byte_measurements)
    \/ ReadModelNumber
    \/ ReadSerialNumber
    \/ StartNotify
    \/ WriteTrigger
    \/ \E data \in CommandNotifications : Notify(data)
    \/ WaitTimeout
    \/ StopNotify
    \/ BusError
    \/ ClientExit

Spec == Init /\ [][Next]_vars

(***************************************************************************)
(* SpecExchange: the program with one Wave in range and every delivered    *)
(* notification recorded in `delivered`, at most MaxDeliveries of them,    *)
(* drawn from payloads that decode to different values and one that does   *)
(* not decode.                                                             *)
(***************************************************************************)
ExchangeNotifications ==
    {Notification(10, 2700), Notification(200, 2215),
     SubSeq(Notification(10, 2700), 1, 22)}

\* command_data_handler, lines 134-136, called by the transport while the task
\* is suspended and the subscription is active
Deliver(data) ==
    /\ subscribed
    /\ pc \in AwaitingWithSubscription
    /\ Len(delivered) < MaxDeliveries
    /\ command_data' = command_data_handler(command_data, data)
    /\ notified' = TRUE
    /\ delivered' = Append(delivered, [reader |-> reader, session |-> Len(sessions),
                                       data |-> data])
    /\ UNCHANGED <<open, bus_ops, subscribed, measurements, serial_number,
                   formatted_command_data, formatted_data, pc, mains, reader, exc>>
    /\ UNCHANGED mainVars
    /\ UNCHANGED discoverVars
    /\ UNCHANGED testVars

NextExchange ==
    \/ MainStart
    \/ \E scanned \in {<<DeviceAt("A")>>} : ScanPass(scanned)
    \/ DiscoverReturn
    \/ \E ok \in BOOLEAN : ClientEnter(ok)
    \/ \E services \in ServiceLists : GetServices(services)
    \/ \E byte_measurements \in MeasurementReads : ReadMeasurements(byte_measurements)
    \/ ReadModelNumber
    \/ ReadSerialNumber
    \/ StartNotify
    \/ WriteTrigger
    \/ \E data \in ExchangeNotifications : Deliver(data)
    \/ WaitTimeout
    \/ StopNotify
    \/ BusError
    \/ ClientExit

SpecExchange == Init /\ [][NextExchange]_vars

(***************************************************************************)
(* SpecCodec: struct.pack and struct.unpack of the measurement layout,     *)
(* applied to tuples in the field ranges.                                  *)
(***************************************************************************)
ByteSamples == {0, 1, 128, 2 ^ 8 - 1}
WordSamples == {0, 1, 2 ^ 8 - 1, 2 ^ 8, 2 ^ 8 + 2, 2 ^ 15, 2 ^ 16 - 1}

\* a tuple of the layout whose i-th 16-bit field is w
FieldTuple(b, w, i) ==
    <<b, 2 ^ 8 - 1 - b, b, 0>> \o [j \in 1..8 |-> IF j = i THEN w ELSE 2 ^ 8 * j + b]

CodecInputs == {FieldTuple(b, w, i) : b \in ByteSamples, w \in WordSamples, i \in 1..8}

InitCodec ==
    /\ ProgInit
    /\ t_fields \in CodecInputs
    /\ t_bytes = <<>>
    /\ t_decoded = None
    /\ t_mv = 0
    /\ t_payload = <<>>
    /\ t_result = None

\* struct.pack("<4B8H", *fields): what the device puts in the characteristic
Pack ==
    /\ t_bytes = <<>>
    /\ t_bytes' = pack(FMT_MEASUREMENTS, t_fields)
    /\ UNCHANGED <<t_fields, t_decoded>>
    /\ UNCHANGED batteryVars
    /\ UNCHANGED progVars

\* read_measurements, line 97
Unpack ==
    /\ t_bytes # <<>>
    /\ t_decoded = None
    /\ t_decoded' = Some(unpack(FMT_MEASUREMENTS, t_bytes))
    /\ UNCHANGED <<t_fields, t_bytes>>
    /\ UNCHANGED batteryVars
    /\ UNCHANGED progVars

NextCodec == Pack \/ Unpack

SpecCodec == InitCodec /\ [][NextCodec]_vars

(***************************************************************************)
(* SpecBattery: a notification carrying a battery field is captured and    *)
(* decoded as read_command_data decodes it.                                *)
(***************************************************************************)
MvInputs == {0, 1, 2 ^ 16 - 2, 2 ^ 16 - 1} \cup (MvFrom..MvTo)

InitBattery ==
    /\ ProgInit
    /\ t_fields = <<>>
    /\ t_bytes = <<>>
    /\ t_decoded = None
    /\ t_mv \in MvInputs
    /\ t_payload = <<>>
    /\ t_result = None

\* command_data_handler, line 136, with the payload of the device
Capture ==
    /\ t_payload = <<>>
    /\ t_payload' = Notification(0, t_mv)
    /\ UNCHANGED <<t_mv, t_result>>
    /\ UNCHANGED codecVars
    /\ UNCHANGED progVars

\* read_command_data, lines 122-129
Decode ==
    /\ t_payload # <<>>
    /\ t_result = None
    /\ t_result' = Some(decode_command_data(t_payload))
    /\ UNCHANGED <<t_mv, t_payload>>
    /\ UNCHANGED codecVars
    /\ UNCHANGED progVars

NextBattery == Capture \/ Decode

SpecBattery == InitBattery /\ [][NextBattery]_vars

(***************************************************************************)
(* SpecCommand: notifications of every length up to MaxPayloadLen are      *)
(* captured and decoded as read_command_data decodes them.                 *)
(***************************************************************************)
\* the first n bytes of a notification, zero bytes added when it is shorter
Resize(bytes, n) == [i \in 1..n |-> IF i <= Len(bytes) THEN bytes[i] ELSE 0]

InitCommand ==
    /\ ProgInit
    /\ t_fields = <<>>
    /\ t_bytes = <<>>
    /\ t_decoded = None
    /\ t_mv \in {0, 2700, 2 ^ 16 - 1}
    /\ t_payload = <<>>
    /\ t_result = None

\* command_data_handler, line 136, with a payload of n bytes
CaptureLength(n) ==
    /\ t_payload = <<>>
    /\ t_payload' = Resize(Notification(0, t_mv), n)
    /\ UNCHANGED <<t_mv, t_result>>
    /\ UNCHANGED codecVars
    /\ UNCHANGED progVars

NextCommand == (\E n \in 1..MaxPayloadLen : CaptureLength(n)) \/ Decode

SpecCommand == InitCommand /\ [][NextCommand]_vars

(***************************************************************************)
(* SpecHumidity: calc_absolute_humidity applied to relative humidities in  *)
(* 0..100 %, temperatures in -40..60 degrees C and pressures in            *)
(* 900..1100 hPa.  t_fields holds the inputs as <<2 * rh, 100 * t, 50 * p>>,*)
(* the scales of the measurement payload.                                  *)
(***************************************************************************)
HumidityInputs ==
    {<<rh2, t100, p50>> : rh2 \in {0, 1, 2, 90, 199, 200},
                          t100 \in {-4000, -1, 0, 2150, 6000},
                          p50 \in {45000, 50650, 55000}}

InitHumidity ==
    /\ ProgInit
    /\ t_fields \in HumidityInputs
    /\ t_bytes = <<>>
    /\ t_decoded = None
    /\ t_mv = 0
    /\ t_payload = <<>>
    /\ t_result = None

\* calc_absolute_humidity(rh, t, p), lines 144-148
ComputeHumidity ==
    /\ t_result = None
    /\ t_result' = Some(calc_absolute_humidity(FDiv(FInt(t_fields[1]), FInt(2)),
                                               FDiv(FInt(t_fields[2]), FInt(100)),
                                               FDiv(FInt(t_fields[3]), FInt(50))))
    /\ UNCHANGED <<t_fields, t_bytes, t_decoded, t_mv, t_payload>>
    /\ UNCHANGED progVars

NextHumidity == ComputeHumidity

SpecHumidity == InitHumidity /\ [][NextHumidity]_vars

(***************************************************************************)
(* Properties.                                                             *)
(***************************************************************************)
IsPrefix(a, b) == Len(a) <= Len(b) /\ \A i \in 1..Len(a) : a[i] = b[i]
LastOp == IF bus_ops = <<>> THEN "" ELSE bus_ops[Len(bus_ops)].op
ZeroServicesReported ==
    \E i \in 1..Len(bus_ops) : bus_ops[i].op = "get_services" /\ bus_ops[i].data = <<>>
Clamp(x, lo, hi) == Max(lo, Min(hi, x))
RoundHalfEven(x, d) ==
    IF 2 * (x % d) < d THEN x \div d
    ELSE IF 2 * (x % d) > d THEN x \div d + 1
    ELSE IF (x \div d) % 2 = 0 THEN x \div d ELSE x \div d + 1

\* C1: every Airthings address occurs exactly once in the accumulated
\* found_devices list, however often it is advertised again and whatever
\* other devices the list already holds.
C1_ExactlyOnce ==
    \A i, j \in 1..Len(found_devices) :
        found_devices[i].address = found_devices[j].address => i = j

\* C2: an exchange during which no notification arrived ends its wait without
\* raising and with the result illuminance 0, battery_voltage 0,
\* battery_percentage 0, also when an earlier exchange on the same reader had
\* captured a notification.
C2_TimeoutGivesDefaults ==
    /\ (pc = "stop_notify" /\ ~notified) =>
           formatted_command_data = Some(default_command_data)
    /\ (pc = "client_exit" /\ ~notified /\ LastOp = "unpack") => exc # "struct.error"

\* C3: when read_command_data has returned (the reading is being assembled),
\* the subscription it made with start_notify is no longer active, whether a
\* notification arrived or not.
C3_UnsubscribedOnReturn ==
    (pc = "client_exit" /\ "start_notify" \in Ops(bus_ops) /\ "format" \in Ops(bus_ops))
        => ~subscribed

C3_Witness ==
    /\ pc = "client_exit"
    /\ "start_notify" \in Ops(bus_ops)
    /\ "format" \in Ops(bus_ops)
    /\ notified
    /\ exc = "none"

\* C4 as stated: a session against a device that reports zero services raises
\* nothing, performs no read, write or subscribe, and yields a reading in
\* which every numeric field is present with its zero value.
C4_ZeroServicesZeroReading ==
    (pc = "client_exit" /\ ZeroServicesReported) =>
        /\ exc = "none"
        /\ Ops(bus_ops) \subseteq {"connect", "get_services"}
        /\ formatted_data # None
        /\ {"radon_day_average", "radon_total_average", "temperature", "pressure",
            "co2", "voc", "illuminance", "battery_voltage", "battery_percentage",
            "humidity_rel", "humidity_abs"} \subseteq DOMAIN formatted_data[1]
        /\ formatted_data[1].radon_day_average = 0
        /\ formatted_data[1].battery_percentage = 0

\* C4, amended: a session against a device that reports zero services raises
\* nothing, performs no read, write or subscribe, and yields the empty
\* mapping: a reading with no field at all.
C4_ZeroServicesEmptyReading ==
    ZeroServicesReported =>
        /\ exc = "none"
        /\ Ops(bus_ops) \subseteq {"connect", "get_services"}
        /\ pc = "client_exit"
        /\ formatted_data # None
        /\ DOMAIN formatted_data[1] = {}

C4_Witness ==
    /\ ZeroServicesReported
    /\ pc = "client_exit"
    /\ exc = "none"
    /\ formatted_data # None
    /\ dev_idx = 2
    /\ Len(measurements_data) = 1

\* C5: when the session of one device fails, main still connects to every
\* later device of the list.
C5_LaterDevicesStillRead ==
    pc = "raised" =>
        \A i \in 1..Len(found_devices) : \E k \in 1..Len(sessions) : sessions[k] = i

\* C6: every element of found_devices has key 0x0334 in its manufacturer
\* data; a device advertising without it is never appended.
C6_OnlyAirthings ==
    \A i \in 1..Len(found_devices) : AIRTHINGS_ID \in found_devices[i].manufacturer_data

C6_Witness ==
    /\ pc = "discover"
    /\ scn = Scans
    /\ found_devices # <<>>
    /\ \E i \in 1..Len(devices) : AIRTHINGS_ID \notin devices[i].manufacturer_data

\* C7: no step removes or reorders an entry of found_devices (the old list is
\* a prefix of the new one, also when a call starts), and discover() returns
\* the length of the list at that moment, never less than it returned before.
C7_Accumulates ==
    [][/\ IsPrefix(found_devices, found_devices')
       /\ (pc = "discover" /\ pc' # "discover") =>
              /\ no_of_found_devices' = Some(Len(found_devices'))
              /\ no_of_found_devices # None =>
                     no_of_found_devices'[1] >= no_of_found_devices[1]]_vars

C7_Witness ==
    /\ mains = 2
    /\ pc = "connect"
    /\ sessions = <<>>
    /\ no_of_found_devices = Some(Len(found_devices))
    /\ json_records # None
    /\ json_records[1] < Len(found_devices)

\* C8: at most one connection is open; it is closed before the next one is
\* opened or main ends; the sessions run in list order.
C8_OneConnection ==
    /\ Cardinality(open) <= 1
    /\ pc \in {"idle", "discover", "connect", "raised"} => open = {}
    /\ \A k \in 1..Len(sessions) : sessions[k] = k

C8_Witness ==
    /\ Len(sessions) = 2
    /\ open = {2}
    /\ pc = "wait"

\* C9 as stated: battery_percentage equals round(clamp((mv - 2200) / 10, 0, 100)).
C9_ExactRounding ==
    t_result # None =>
        /\ t_result[1].ok
        /\ t_result[1].val.battery_percentage =
               RoundHalfEven(Clamp(t_mv - 2200, 0, 1000), 10)

\* C9, amended: battery_percentage is an integer in 0..100, 0 for mv <= 2200,
\* 100 for mv >= 3200, 50 for mv = 2700, and within half a percent of
\* clamp((mv - 2200) / 10, 0, 100): it is the nearest integer wherever that
\* is unique, and one of the two neighbours where (mv - 2200) / 10 lies
\* halfway between two integers.
C9_WithinHalfPercent ==
    t_result # None =>
        /\ t_result[1].ok
        /\ t_result[1].val.battery_percentage \in 0..100
        /\ t_mv <= 2200 => t_result[1].val.battery_percentage = 0
        /\ t_mv >= 3200 => t_result[1].val.battery_percentage = 100
        /\ t_mv = 2700 => t_result[1].val.battery_percentage = 50
        /\ Abs(10 * t_result[1].val.battery_percentage - Clamp(t_mv - 2200, 0, 1000)) <= 5

C9_Witness ==
    /\ t_result # None
    /\ t_mv = 2215
    /\ t_result[1].val.battery_percentage = 1

\* C10 as stated: the encoding is 16 bytes long and decodes to the tuple.
C10_RoundTrip16 ==
    t_decoded # None =>
        /\ Len(t_bytes) = 16
        /\ t_decoded[1].ok
        /\ t_decoded[1].val = t_fields

\* C10, amended: 4 unsigned 8-bit values followed by 8 unsigned 16-bit values
\* encode into the fixed 20-byte little-endian layout, and decoding it
\* reproduces the tuple exactly.
C10_RoundTrip20 ==
    /\ t_bytes # <<>> => Len(t_bytes) = 20 /\ Len(t_bytes) = calcsize(FMT_MEASUREMENTS)
    /\ t_decoded # None =>
           /\ t_decoded[1].ok
           /\ t_decoded[1].val = t_fields

C10_Witness ==
    /\ t_decoded # None
    /\ t_decoded[1].ok
    /\ t_fields[5] = 2 ^ 16 - 1
    /\ t_fields[1] = 2 ^ 8 - 1

MeasurementReadsLogged ==
    {i \in 1..Len(bus_ops) : bus_ops[i].char = "CHARACTERISTIC_UUID"}

\* C11 as stated: the measurement decode succeeds exactly when 16 bytes were
\* read; otherwise a decode error ends the session.
C11_DecodesExactly16 ==
    \A i \in MeasurementReadsLogged :
        IF Len(bus_ops[i].data) = 16
        THEN measurements # None
        ELSE measurements = None /\ exc = "struct.error"

\* C11, amended: the measurement decode succeeds exactly when 20 bytes were
\* read; for every other length, shorter or longer, struct.error is raised,
\* nothing more is done in the session, and the error leaves the session.
C11_DecodesExactly20 ==
    \A i \in MeasurementReadsLogged :
        IF Len(bus_ops[i].data) = 20
        THEN measurements # None
        ELSE /\ measurements = None
             /\ exc = "struct.error"
             /\ i = Len(bus_ops)
             /\ pc \in {"client_exit", "raised"}
             /\ formatted_data = None

C11_Witness ==
    /\ pc = "raised"
    /\ exc = "struct.error"
    /\ open = {}
    /\ \E i \in MeasurementReadsLogged : Len(bus_ops[i].data) > 20

\* C12 as stated: the command decode accepts every notification of 30 bytes
\* or more and fails only for shorter ones.
C12_AcceptsAtLeast30 ==
    t_result # None => (t_result[1].ok <=> Len(t_payload) >= 30)

\* C12, amended: the command decode accepts a notification exactly when 28
\* bytes remain after the 2-byte header, that is when it is 30 bytes long, and
\* fails with struct.error for every shorter and every longer one.
C12_AcceptsExactly30 ==
    t_result # None =>
        /\ t_result[1].ok <=> Len(t_payload) = 30
        /\ t_result[1].ok <=> Len(after_header(t_payload)) = calcsize(FMT_COMMAND)
        /\ calcsize(FMT_COMMAND) = 28
        /\ t_result[1].ok => t_result[1].val.battery_voltage = battery_voltage_of(t_mv)

C12_Witness ==
    /\ t_result # None
    /\ ~t_result[1].ok
    /\ Len(t_payload) > 30

\* C13 as stated: absolute_humidity is strictly positive for every relative
\* humidity in 0..100 %, temperature in -40..60 and pressure in 900..1100.
C13_StrictlyPositive ==
    t_result # None => ~t_result[1].zero_division /\ t_result[1].sign = 1

\* C13, amended: in those ranges absolute_humidity is defined and never
\* negative; it is strictly positive for every relative humidity above 0 %
\* and is 0 at 0 %.
C13_PositiveAboveZero ==
    t_result # None =>
        /\ ~t_result[1].zero_division
        /\ t_result[1].sign >= 0
        /\ t_result[1].sign = 1 <=> t_fields[1] > 0

C13_Witness ==
    /\ t_result # None
    /\ t_fields[1] = 0
    /\ t_fields[2] = -4000
    /\ t_result[1].sign = 0

IndexOf(op, char) ==
    {i \in 1..Len(bus_ops) : bus_ops[i].op = op /\ bus_ops[i].char = char}

\* C14: in a session with services the measurement characteristic is read
\* first, then the model number, then the serial number, then the Command
\* Exchange runs (each step is logged only when the one before has returned
\* its value), and the reading with its timestamp is assembled last, after
\* the exchange has unsubscribed and returned.
C14_SessionOrder ==
    /\ IndexOf("read_gatt_char", "CHARACTERISTIC_UUID") \subseteq {3}
    /\ IndexOf("read_gatt_char", "MODEL_NUMBER_UUID") \subseteq {4}
    /\ IndexOf("read_gatt_char", "SERIAL_NUMBER_UUID") \subseteq {5}
    /\ IndexOf("start_notify", "COMMAND_UUID") \subseteq {6}
    /\ IndexOf("read_gatt_char", "MODEL_NUMBER_UUID") # {} => measurements # None
    /\ IndexOf("start_notify", "COMMAND_UUID") # {} =>
           /\ serial_number = Some(decode_utf8(MODEL_NUMBER) \o decode_utf8(SERIAL_NUMBER))
           /\ IndexOf("read_gatt_char", "SERIAL_NUMBER_UUID") # {}
    /\ \A i \in IndexOf("format", "") :
           /\ i = Len(bus_ops)
           /\ i - 1 \in IndexOf("stop_notify", "COMMAND_UUID")
           /\ IndexOf("start_notify", "COMMAND_UUID") # {}
    /\ (formatted_data # None /\ DOMAIN formatted_data[1] # {}) =>
           /\ IndexOf("format", "") # {}
           /\ \A i \in 1..Len(bus_ops) :
                  bus_ops[i].op \in {"read_gatt_char", "start_notify", "write_gatt_char",
                                     "timeout", "unpack", "stop_notify"}
                      => formatted_data[1].timestamp >= i

C14_Witness ==
    /\ pc = "client_exit"
    /\ exc = "none"
    /\ formatted_data # None
    /\ DOMAIN formatted_data[1] # {}
    /\ IndexOf("format", "") # {}
    /\ IndexOf("unpack", "") # {}

\* C15: in one Command Exchange the trigger is written only when the
\* subscription on the same characteristic is in place, it is the single
\* byte 0x6d and is written once, the wait follows the write, decoding
\* follows the wait, and the unsubscribe comes after the decoding.
C15_ExchangeOrder ==
    /\ pc = "write_gatt_char" => subscribed
    /\ Cardinality(IndexOf("write_gatt_char", "COMMAND_UUID")) <= 1
    /\ \A i \in 1..Len(bus_ops) :
           /\ bus_ops[i].op = "write_gatt_char" =>
                  /\ bus_ops[i].char = "COMMAND_UUID"
                  /\ bus_ops[i].data = <<109>>
                  /\ i - 1 \in IndexOf("start_notify", "COMMAND_UUID")
           /\ bus_ops[i].op = "timeout" =>
                  i - 1 \in IndexOf("write_gatt_char", "COMMAND_UUID")
           /\ bus_ops[i].op = "unpack" => i - 1 \in IndexOf("timeout", "")
           /\ bus_ops[i].op = "stop_notify" =>
                  /\ IndexOf("timeout", "") # {}
                  /\ \A j \in IndexOf("unpack", "") \cup IndexOf("timeout", "") : j < i

C15_Witness ==
    /\ pc = "client_exit"
    /\ exc = "none"
    /\ ~subscribed
    /\ IndexOf("write_gatt_char", "COMMAND_UUID") # {}
    /\ IndexOf("unpack", "") # {}
    /\ IndexOf("stop_notify", "COMMAND_UUID") # {}

DeliveredTo(r) == SelectSeq(delivered, LAMBDA e : e.reader = r)
LastDeliveredTo(r) == DeliveredTo(r)[Len(DeliveredTo(r))].data

\* C16: nothing is queued: when the wait ends, the exchange decodes the last
\* payload the handler was given before that moment, whatever was delivered
\* before it; if that payload decodes, its values are the result, and if it
\* does not, the exchange raises.
C16_LatestWins ==
    [][(pc = "wait" /\ pc' # "wait" /\ DeliveredTo(reader) # <<>>) =>
           /\ command_data = Some(LastDeliveredTo(reader))
           /\ IF decode_command_data(LastDeliveredTo(reader)).ok
              THEN /\ pc' = "stop_notify"
                   /\ formatted_command_data' =
                          Some(decode_command_data(LastDeliveredTo(reader)).val)
              ELSE /\ pc' = "client_exit"
                   /\ exc' = "struct.error"]_vars

C16_Witness ==
    /\ pc = "stop_notify"
    /\ Len(delivered) = 2
    /\ delivered[1].reader = reader /\ delivered[2].reader = reader
    /\ delivered[1].session = Len(sessions) /\ delivered[2].session = Len(sessions)
    /\ delivered[1].data = Notification(10, 2700)
    /\ delivered[2].data = Notification(200, 2215)
    /\ formatted_command_data[1].illuminance = 200
    /\ formatted_command_data[1].battery_percentage = 1

\* C17: when the Command Exchange fails after it has subscribed (decode
\* error, or a failing trigger write), the subscription is released before
\* the error leaves read_command_data.
C17_ReleasedOnError ==
    (pc = "client_exit" /\ exc # "none" /\ IndexOf("start_notify", "COMMAND_UUID") # {})
        => ~subscribed

\* C18: with pressure field 0 the session returns no reading: the three
\* reads and the whole Command Exchange, unsubscribe included, are done, then
\* the assembly raises ZeroDivisionError, which leaves connect; and this is
\* the only way ZeroDivisionError arises.
C18_ZeroPressureRaises ==
    /\ (IndexOf("format", "") # {} /\ At(measurements[1], 7) = 0) =>
           /\ exc = "ZeroDivisionError"
           /\ formatted_data = None
           /\ pc \in {"client_exit", "raised"}
    /\ exc = "ZeroDivisionError" =>
           /\ measurements # None
           /\ At(measurements[1], 7) = 0
           /\ IndexOf("read_gatt_char", "CHARACTERISTIC_UUID") # {}
           /\ IndexOf("read_gatt_char", "MODEL_NUMBER_UUID") # {}
           /\ IndexOf("read_gatt_char", "SERIAL_NUMBER_UUID") # {}
           /\ IndexOf("stop_notify", "COMMAND_UUID") # {}
           /\ IndexOf("format", "") = {Len(bus_ops)}
           /\ ~subscribed
           /\ Len(measurements_data) = Len(sessions) - 1

C18_Witness ==
    /\ pc = "raised"
    /\ exc = "ZeroDivisionError"
    /\ open = {}
    /\ json_records = None

\* C19: the wait of the exchange ends only by the expiry of its 2-unit bound,
\* whether or not a notification has arrived; nothing is decoded before that,
\* and a notification that arrived is decoded after the timeout.
C19_WaitEndsByTimeout ==
    /\ [](/\ IndexOf("event", "") = {}
          /\ (pc = "stop_notify" \/ IndexOf("unpack", "") # {}
                 \/ IndexOf("stop_notify", "COMMAND_UUID") # {}) =>
                 \E i \in IndexOf("timeout", "") : bus_ops[i].data = <<2>>
          /\ \A i \in IndexOf("unpack", "") : i - 1 \in IndexOf("timeout", ""))
    /\ [][(pc = "wait" /\ pc' # "wait") =>
              /\ bus_ops'[Len(bus_ops) + 1].op = "timeout"
              /\ notified =>
                     /\ bus_ops'[Len(bus_ops')].op = "unpack"
                     /\ IF decode_command_data(command_data[1]).ok
                        THEN /\ pc' = "stop_notify"
                             /\ formatted_command_data' =
                                    Some(decode_command_data(command_data[1]).val)
                        ELSE exc' = "struct.error"]_vars

C19_Witness ==
    /\ pc = "stop_notify"
    /\ notified
    /\ IndexOf("timeout", "") # {}
    /\ formatted_command_data[1].battery_percentage = 50

====
